---- MODULE Spec2Model ----
(***************************************************************************)
(* tinylake: a SQL-subset query engine over an in-memory columnar table.   *)
(*                                                                         *)
(* Two state machines are modelled, both translated from the sources:      *)
(*   ParserSpec - internal/queryparser/parser.go: Lexer.NextToken,         *)
(*                NewParser, Parser.eat, Parser.Parse, parseExpression,    *)
(*                parsePrimary, run on query strings (character sequences) *)
(*   Spec       - internal/engine/executor.go: ExecuteQuery in its three   *)
(*                versions, evaluateExpression, executeAggregates,         *)
(*                executeGroupedQuery, evalAggregateFunction               *)
(* Strings are sequences of one-character strings, so that lexing,         *)
(* upper-casing, number parsing and key formatting are computed.           *)
(***************************************************************************)
EXTENDS Integers, Sequences, FiniteSets, TLC

VARIABLES
    \* ---- parser (queryparser.Parser, queryparser.Lexer) ----
    src,          \* the query the input string was written from (ghost)
    input,        \* Lexer.input
    pos,          \* Lexer.pos (0-based, as in the source)
    curr,         \* Parser.curr
    projections,  \* Parse: local projections
    tableName,    \* Parse: local tableName
    where,        \* Parse: local where
    ppc,          \* position of the caller in NewParser / Parse
    panicMsg,     \* the value passed to panic(), "" when none
    rendered,     \* the Query whose String() is the input, once a Query was rendered
    \* ---- engine (engine.ExecuteQuery) ----
    variant,      \* which version of ExecuteQuery runs
    q,            \* the *queryparser.Query argument
    table,        \* the array.Record argument
    row,          \* filter loop counter
    passIndices,  \* ExecuteQuery: local passIndices
    epc,          \* position inside ExecuteQuery
    result        \* what ExecuteQuery returned

pvars == <<src, input, pos, curr, projections, tableName, where, ppc, panicMsg, rendered>>
evars == <<variant, q, table, row, passIndices, epc, result>>
vars == <<pvars, evars>>

(***************************************************************************)
(* Bounds of the model.                                                    *)
(***************************************************************************)
MaxProj == 2     \* projections of a generated query string
MaxRows == 3     \* rows of an input table

(***************************************************************************)
(* Characters and strings.                                                 *)
(***************************************************************************)
Upper == <<"A","B","C","D","E","F","G","H","I","J","K","L","M",
           "N","O","P","Q","R","S","T","U","V","W","X","Y","Z">>
Lower == <<"a","b","c","d","e","f","g","h","i","j","k","l","m",
           "n","o","p","q","r","s","t","u","v","w","x","y","z">>
Digits == <<"0","1","2","3","4","5","6","7","8","9">>

Range(s) == {s[i] : i \in DOMAIN s}

\* unicode.IsSpace on the characters of the model
IsSpace(ch) == ch \in {" ", "\t", "\n"}

UpperSet == Range(Upper)
LowerSet == Range(Lower)
DigitSet == Range(Digits)

\* unicode.IsLetter(ch) || ch == '_' on the characters of the model
isLetter(ch) == ch \in UpperSet \/ ch \in LowerSet \/ ch = "_"

\* unicode.IsDigit on the characters of the model
isDigit(ch) == ch \in DigitSet

\* strings.ToUpper, one character
ToUpperCh(ch) ==
    IF ch \in LowerSet
    THEN Upper[CHOOSE i \in DOMAIN Lower : Lower[i] = ch]
    ELSE ch

\* strings.ToUpper
ToUpper(s) == [i \in DOMAIN s |-> ToUpperCh(s[i])]

(***************************************************************************)
(* The AST (queryparser.ColumnRef, Literal, BinaryExpr, FuncCall,          *)
(* StarExpr) and a nil Expression.                                         *)
(***************************************************************************)
NilExpr == [node |-> "nil"]
ColumnRef(name) == [node |-> "ColumnRef", Name |-> name]
Literal(value) == [node |-> "Literal", Value |-> value]
BinaryExpr(l, op, r) == [node |-> "BinaryExpr", Left |-> l, Op |-> op, Right |-> r]
FuncCall(name, args) == [node |-> "FuncCall", Name |-> name, Args |-> args]
StarExpr == [node |-> "StarExpr"]

(***************************************************************************)
(* Lexer.                                                                  *)
(***************************************************************************)
Token(type, lit) == [Type |-> type, Literal |-> lit]

RECURSIVE skipWhitespace(_, _)
skipWhitespace(in, p) ==
    IF p < Len(in) /\ IsSpace(in[p + 1]) THEN skipWhitespace(in, p + 1) ELSE p

\* the identifier loop of NextToken: the end of the maximal run of letters and digits
RECURSIVE ScanWord(_, _)
ScanWord(in, p) ==
    IF p < Len(in) /\ (isLetter(in[p + 1]) \/ isDigit(in[p + 1]))
    THEN ScanWord(in, p + 1)
    ELSE p

\* the number loop of NextToken
RECURSIVE ScanNumber(_, _, _)
ScanNumber(in, p, hasDot) ==
    IF p >= Len(in) THEN p
    ELSE IF in[p + 1] = "."
         THEN IF hasDot THEN p ELSE ScanNumber(in, p + 1, TRUE)
         ELSE IF isDigit(in[p + 1]) THEN ScanNumber(in, p + 1, hasDot) ELSE p

KwSelect == <<"S","E","L","E","C","T">>
KwFrom == <<"F","R","O","M">>
KwWhere == <<"W","H","E","R","E">>

\* the keyword switch of NextToken
WordType(word) ==
    LET up == ToUpper(word) IN
    IF up = KwSelect THEN "SELECT"
    ELSE IF up = KwFrom THEN "FROM"
    ELSE IF up = KwWhere THEN "WHERE"
    ELSE "IDENTIFIER"

\* Lexer.NextToken: the token, the new Lexer.pos, and the panic value ("" if none)
NextToken(in, p0) ==
    LET p == skipWhitespace(in, p0) IN
    IF p >= Len(in)
    THEN [tok |-> Token("EOF", <<>>), pos |-> p, panic |-> ""]
    ELSE LET ch == in[p + 1] IN
         IF isLetter(ch)
         THEN LET e == ScanWord(in, p)
                  word == SubSeq(in, p + 1, e)
              IN [tok |-> Token(WordType(word), word), pos |-> e, panic |-> ""]
         ELSE IF isDigit(ch) \/ ch = "."
         THEN LET e == IF ch = "." THEN ScanNumber(in, p + 1, TRUE)
                       ELSE ScanNumber(in, p, FALSE)
              IN [tok |-> Token("LITERAL", SubSeq(in, p + 1, e)), pos |-> e, panic |-> ""]
         ELSE IF ch \in {">", "<", "="}
         THEN [tok |-> Token("OPERATOR", <<ch>>), pos |-> p + 1, panic |-> ""]
         ELSE IF ch = ","
         THEN [tok |-> Token("COMMA", <<",">>), pos |-> p + 1, panic |-> ""]
         ELSE [tok |-> Token("EOF", <<>>), pos |-> p,
               panic |-> "unexpected character"]

(***************************************************************************)
(* Parser.  A parser state is [pos, curr, panic]; a panic stops every      *)
(* later step (the goroutine unwinds).                                     *)
(***************************************************************************)
PState(p, c, pn) == [pos |-> p, curr |-> c, panic |-> pn]

\* Parser.eat
eat(in, st, t) ==
    IF st.panic # "" THEN st
    ELSE IF st.curr.Type # t THEN [st EXCEPT !.panic = "unexpected token"]
    ELSE LET r == NextToken(in, st.pos) IN
         IF r.panic # "" THEN [st EXCEPT !.pos = r.pos, !.panic = r.panic]
         ELSE PState(r.pos, r.tok, "")

\* parsePrimary with the identifier folded to upper case, as the keyword switch does
parsePrimaryFolded(in, st) ==
    IF st.panic # "" THEN [st |-> st, expr |-> NilExpr]
    ELSE IF st.curr.Type = "IDENTIFIER"
    THEN [st |-> eat(in, st, "IDENTIFIER"), expr |-> ColumnRef(ToUpper(st.curr.Literal))]
    ELSE IF st.curr.Type = "LITERAL"
    THEN [st |-> eat(in, st, "LITERAL"), expr |-> Literal(st.curr.Literal)]
    ELSE [st |-> [st EXCEPT !.panic = "unexpected token in primary"],
          expr |-> NilExpr]

\* Parser.parsePrimary
parsePrimary(in, st) ==
    IF st.panic # "" THEN [st |-> st, expr |-> NilExpr]
    ELSE IF st.curr.Type = "IDENTIFIER"
    THEN [st |-> eat(in, st, "IDENTIFIER"), expr |-> ColumnRef(st.curr.Literal)]
    ELSE IF st.curr.Type = "LITERAL"
    THEN [st |-> eat(in, st, "LITERAL"), expr |-> Literal(st.curr.Literal)]
    ELSE [st |-> [st EXCEPT !.panic = "unexpected token in primary"],
          expr |-> NilExpr]

\* Parser.parseExpression
parseExpression(in, st) ==
    LET l == parsePrimary(in, st) IN
    IF l.st.panic # "" THEN l
    ELSE IF l.st.curr.Type = "OPERATOR"
    THEN LET op == l.st.curr.Literal
             r == parsePrimary(in, eat(in, l.st, "OPERATOR"))
         IN [st |-> r.st, expr |-> BinaryExpr(l.expr, op, r.expr)]
    ELSE l

(***************************************************************************)
(* Query strings the parser is run on.  A source query is a sequence of    *)
(* lexemes with the shape it was written in; Render joins the lexemes into *)
(* the input string.                                                       *)
(***************************************************************************)
Idents == {<<"a">>, <<"C","l">>}
NumLits == {<<"7">>, <<"1",".","5">>}
Operands == Idents \cup NumLits
CmpOps == {<<">">>, <<"<">>, <<"=">>}
Tables == {<<"t">>}
Styles == {"spaced", "tight", "lower"}

ToLowerCh(ch) ==
    IF ch \in UpperSet
    THEN Lower[CHOOSE i \in DOMAIN Upper : Upper[i] = ch]
    ELSE ch

ToLower(s) == [i \in DOMAIN s |-> ToLowerCh(s[i])]

IsWordCh(ch) == isLetter(ch) \/ isDigit(ch) \/ ch = "."

\* the lexeme as written: the three keywords in lower case in style "lower"
Written(lex, style) ==
    IF style = "lower" /\ lex \in {KwSelect, KwFrom, KwWhere} THEN ToLower(lex) ELSE lex

RECURSIVE Render(_, _)
Render(toks, style) ==
    IF toks = <<>> THEN <<>>
    ELSE IF Len(toks) = 1 THEN Written(toks[1], style)
    ELSE LET a == Written(toks[1], style)
             b == toks[2]
             gap == IF style = "tight" /\ ~(IsWordCh(a[Len(a)]) /\ IsWordCh(b[1]))
                    THEN <<>> ELSE <<" ">>
         IN a \o gap \o Render(Tail(toks), style)

RECURSIVE CommaList(_)
CommaList(items) ==
    IF Len(items) <= 1 THEN items
    ELSE <<items[1], <<",">>>> \o CommaList(Tail(items))

SeqsUpTo(S, n) == UNION {[1..k -> S] : k \in 1..n}

SourceQuery(kind, projs, tbl, wh, toks, style) ==
    [kind |-> kind, projs |-> projs, table |-> tbl, where |-> wh,
     toks |-> toks, style |-> style]

\* SELECT p1, ..., pn FROM t [WHERE l op r]
SimpleToks(projs, tbl, wh) ==
    <<KwSelect>> \o CommaList(projs) \o <<KwFrom, tbl>>
    \o (IF wh = <<>> THEN <<>> ELSE <<KwWhere>> \o wh)

SimpleWheres == {<<>>} \cup {<<l, op, r>> : l \in Operands, op \in CmpOps, r \in Operands}

SimpleQueries ==
    {SourceQuery("simple", ps, t, w, SimpleToks(ps, t, w), st) :
        ps \in SeqsUpTo(Operands, MaxProj), t \in Tables, w \in SimpleWheres, st \in Styles}

\* ... WHERE c1 AND c2, c1 and c2 comparisons with > or <
KwAnd == <<"A","N","D">>
Comparisons == {<<l, op, r>> : l \in Idents, op \in {<<">">>, <<"<">>}, r \in NumLits}

AndQueries ==
    {SourceQuery("and", <<<<"a">>, <<"C","l">>>>, <<"t">>, c1 \o <<KwAnd>> \o c2,
                 SimpleToks(<<<<"a">>, <<"C","l">>>>, <<"t">>, c1 \o <<KwAnd>> \o c2), st) :
        c1 \in Comparisons, c2 \in Comparisons, st \in {"spaced", "tight"}}

\* ... WHERE a op1 7 op2 Cl, an operator chain of three operands
KwOr == <<"O","R">>
ChainOps == {<<"*">>, <<"+">>, <<">">>, <<"=">>, KwAnd, KwOr}

ChainQueries ==
    {SourceQuery("chain", <<<<"a">>>>, <<"t">>, <<<<"a">>, op1, <<"7">>, op2, <<"C","l">>>>,
                 SimpleToks(<<<<"a">>>>, <<"t">>, <<<<"a">>, op1, <<"7">>, op2, <<"C","l">>>>), st) :
        op1 \in ChainOps, op2 \in ChainOps, st \in {"spaced", "tight"}}

\* malformed query strings, by the way they are malformed
Malformed(kind, toks) == SourceQuery(kind, <<>>, <<>>, <<>>, toks, "spaced")

MalformedQueries ==
    { Malformed("missing FROM", <<KwSelect, <<"a">>, <<"t">>>>),
      Malformed("missing FROM", <<KwSelect, <<"a">>, KwWhere, <<"a">>, <<">">>, <<"7">>>>),
      Malformed("missing FROM", <<KwSelect, <<"a">>>>),
      Malformed("missing table", <<KwSelect, <<"a">>, KwFrom>>),
      Malformed("missing table", <<KwSelect, <<"a">>, KwFrom, KwWhere, <<"a">>, <<">">>, <<"7">>>>),
      Malformed("missing table", <<KwSelect, <<"a">>, KwFrom, <<"7">>>>),
      Malformed("trailing tokens", <<KwSelect, <<"a">>, KwFrom, <<"t">>, <<"t">>>>),
      Malformed("trailing tokens", <<KwSelect, <<"a">>, KwFrom, <<"t">>, <<",">>, <<"C","l">>>>),
      Malformed("trailing tokens",
                <<KwSelect, <<"a">>, KwFrom, <<"t">>, KwWhere, <<"a">>, <<">">>, <<"7">>, <<"C","l">>>>),
      Malformed("trailing tokens",
                <<KwSelect, <<"a">>, KwFrom, <<"t">>, KwWhere, <<"a">>, <<">">>, <<"7">>, <<">">>, <<"7">>>>),
      Malformed("unbalanced parenthesis", <<KwSelect, <<"(">>, <<"a">>, KwFrom, <<"t">>>>),
      Malformed("unbalanced parenthesis",
                <<KwSelect, <<"a">>, KwFrom, <<"t">>, KwWhere, <<"(">>, <<"a">>, <<">">>, <<"7">>>>),
      Malformed("unbalanced parenthesis",
                <<KwSelect, <<"a">>, KwFrom, <<"t">>, KwWhere, <<"a">>, <<">">>, <<"7">>, <<")">>>>),
      Malformed("unrecognized character", <<KwSelect, <<"a">>, <<"#">>, KwFrom, <<"t">>>>),
      Malformed("unrecognized character", <<<<"#">>, KwSelect, <<"a">>, KwFrom, <<"t">>>>),
      Malformed("unrecognized character",
                <<KwSelect, <<"a">>, KwFrom, <<"t">>, KwWhere, <<"a">>, <<"!">>, <<"7">>>>),
      Malformed("unrecognized character", <<KwSelect, <<"a">>, KwFrom, <<"t">>, <<";">>>>) }

\* projections that are function calls: name ( args )
Call(name, args) == <<name, <<"(">>>> \o CommaList(args) \o <<<<")">>>>

FuncProjs ==
    { << [name |-> <<"S","U","M">>, args |-> <<<<"V","o">>>>],
         [name |-> <<"C","O","U","N","T">>, args |-> <<<<"*">>>>] >>,
      << [name |-> <<"C","O","U","N","T">>, args |-> <<<<"*">>>>] >>,
      << [name |-> <<"m","a","x">>, args |-> <<<<"a">>>>] >>,
      << [name |-> <<"f">>, args |-> <<<<"a">>, <<"7">>>>] >> }

RECURSIVE CallList(_)
CallList(fs) ==
    IF fs = <<>> THEN <<>>
    ELSE Call(fs[1].name, fs[1].args)
         \o (IF Len(fs) = 1 THEN <<>> ELSE <<<<",">>>> \o CallList(Tail(fs)))

FuncQueries ==
    {SourceQuery("func", fs, <<"t">>, <<>>,
                 <<KwSelect>> \o CallList(fs) \o <<KwFrom, <<"t">>>>, st) :
        fs \in FuncProjs, st \in {"spaced", "tight"}}

SourceQueries ==
    SimpleQueries \cup AndQueries \cup ChainQueries \cup MalformedQueries \cup FuncQueries

(***************************************************************************)
(* NewParser and Parser.Parse, step by step.                               *)
(***************************************************************************)
ZeroToken == Token("EOF", <<>>)

\* the parser fields after a step that ended in parser state st
Advance(st, next) ==
    /\ pos' = st.pos
    /\ curr' = st.curr
    /\ panicMsg' = st.panic
    /\ ppc' = IF st.panic # "" THEN "panic" ELSE next

\* NewParser: the lexer is created and the first token read
NewParser ==
    /\ ppc = "NewParser"
    /\ LET r == NextToken(input, 0) IN
       Advance(PState(r.pos, r.tok, r.panic), "Parse")
    /\ UNCHANGED <<src, rendered, input, projections, tableName, where, evars>>

\* Parse: eat(TOKEN_SELECT) and the first projection
ParseSelect ==
    /\ ppc = "Parse"
    /\ LET r == parseExpression(input, eat(input, PState(pos, curr, ""), "SELECT")) IN
       /\ Advance(r.st, "projections")
       /\ projections' = IF r.st.panic # "" THEN projections ELSE <<r.expr>>
    /\ UNCHANGED <<src, rendered, input, tableName, where, evars>>

\* Parse: one iteration of the loop over TOKEN_COMMA
ParseProjection ==
    /\ ppc = "projections"
    /\ curr.Type = "COMMA"
    /\ LET r == parseExpression(input, eat(input, PState(pos, curr, ""), "COMMA")) IN
       /\ Advance(r.st, "projections")
       /\ projections' = IF r.st.panic # "" THEN projections
                         ELSE Append(projections, r.expr)
    /\ UNCHANGED <<src, rendered, input, tableName, where, evars>>

\* Parse: eat(TOKEN_FROM) and the table name
ParseFrom ==
    /\ ppc = "projections"
    /\ curr.Type # "COMMA"
    /\ LET s1 == eat(input, PState(pos, curr, ""), "FROM")
           s2 == IF s1.panic = "" /\ s1.curr.Type # "IDENTIFIER"
                 THEN [s1 EXCEPT !.panic = "expected table name"]
                 ELSE s1
           s3 == eat(input, s2, "IDENTIFIER")
       IN /\ Advance(s3, "where")
          /\ tableName' = IF s3.panic # "" THEN tableName ELSE s1.curr.Literal
    /\ UNCHANGED <<src, rendered, input, projections, where, evars>>

\* Parse: the optional WHERE clause and the return of the Query
ParseWhere ==
    /\ ppc = "where"
    /\ IF curr.Type = "WHERE"
       THEN LET r == parseExpression(input, eat(input, PState(pos, curr, ""), "WHERE")) IN
            /\ Advance(r.st, "done")
            /\ where' = IF r.st.panic # "" THEN where ELSE r.expr
       ELSE /\ ppc' = "done"
            /\ UNCHANGED <<pos, curr, panicMsg, where>>
    /\ UNCHANGED <<src, rendered, input, projections, tableName, evars>>

\* the *Query that Parse returned
ParsedQuery ==
    [Projections |-> projections, TableName |-> tableName, Where |-> where]

\* no Query: the value of rendered while the input is a source string
NoQuery == [Projections |-> <<>>, TableName |-> <<>>, Where |-> NilExpr]

\* formatExpr
RECURSIVE formatExpr(_)
formatExpr(expr) ==
    CASE expr.node = "ColumnRef" -> expr.Name
      [] expr.node = "Literal" -> expr.Value
      [] expr.node = "BinaryExpr" ->
            <<"(">> \o formatExpr(expr.Left) \o <<" ">> \o expr.Op \o <<" ">>
            \o formatExpr(expr.Right) \o <<")">>
      [] OTHER -> <<"U","N","K","N","O","W","N","_","E","X","P","R">>

\* the loop of Query.String over the projections
RECURSIVE formatProjections(_)
formatProjections(exprs) ==
    IF exprs = <<>> THEN <<>>
    ELSE formatExpr(exprs[1])
         \o (IF Len(exprs) = 1 THEN <<>> ELSE <<",", " ">> \o formatProjections(Tail(exprs)))

\* Query.String
QueryString(qry) ==
    KwSelect \o <<" ">> \o formatProjections(qry.Projections)
    \o <<" ">> \o KwFrom \o <<" ">> \o qry.TableName
    \o (IF qry.Where.node = "nil" THEN <<>>
        ELSE <<" ">> \o KwWhere \o <<" ">> \o formatExpr(qry.Where))

\* the Query that Parse returned is rendered with String() and a parser is
\* created on the text
RenderQuery ==
    /\ ppc = "done"
    /\ src.kind # "rendered"
    /\ src' = [src EXCEPT !.kind = "rendered"]
    /\ rendered' = ParsedQuery
    /\ input' = QueryString(ParsedQuery)
    /\ pos' = 0
    /\ curr' = ZeroToken
    /\ projections' = <<>>
    /\ tableName' = <<>>
    /\ where' = NilExpr
    /\ ppc' = "NewParser"
    /\ panicMsg' = ""
    /\ UNCHANGED evars

EngineIdle ==
    /\ variant = "none"
    /\ q = [Projections |-> <<>>, TableName |-> <<>>, Where |-> NilExpr, GroupBy |-> <<>>]
    /\ table = [schema |-> <<>>, cols |-> <<>>, rows |-> 0]
    /\ row = 0
    /\ passIndices = <<>>
    /\ epc = "idle"
    /\ result = [kind |-> "none", rec |-> [schema |-> <<>>, cols |-> <<>>, rows |-> 0],
                 err |-> ""]

PInit ==
    /\ src \in SourceQueries
    /\ input = Render(src.toks, src.style)
    /\ pos = 0
    /\ curr = ZeroToken
    /\ projections = <<>>
    /\ tableName = <<>>
    /\ where = NilExpr
    /\ ppc = "NewParser"
    /\ panicMsg = ""
    /\ rendered = NoQuery
    /\ EngineIdle

PNext ==
    \/ NewParser
    \/ ParseSelect
    \/ ParseProjection
    \/ ParseFrom
    \/ ParseWhere
    \/ RenderQuery

ParserSpec == PInit /\ [][PNext]_vars

(***************************************************************************)
(* Dynamic values of the evaluator (Go interface{}): nil, float64, string, *)
(* bool.  A float64 is an exact rational n/d in lowest terms, or +Inf,     *)
(* -Inf, NaN; zero carries its sign (neg), as IEEE-754 does.               *)
(***************************************************************************)
Nil == [t |-> "nil"]
Str(s) == [t |-> "string", s |-> s]
Bool(b) == [t |-> "bool", b |-> b]

Abs(x) == IF x < 0 THEN -x ELSE x

RECURSIVE GCD(_, _)
GCD(a, b) == IF b = 0 THEN a ELSE GCD(b, a % b)

\* the finite float64 n/d, d # 0; a zero result is +0
Fin(n, d) ==
    LET g == GCD(Abs(n), Abs(d))
        sn == IF d < 0 THEN -n ELSE n
    IN [t |-> "float", c |-> "fin", n |-> sn \div g, d |-> Abs(d) \div g, neg |-> sn < 0]

NegZero == [t |-> "float", c |-> "fin", n |-> 0, d |-> 1, neg |-> TRUE]
Inf(neg) == [t |-> "float", c |-> "inf", n |-> 0, d |-> 1, neg |-> neg]
NaN == [t |-> "float", c |-> "nan", n |-> 0, d |-> 1, neg |-> FALSE]
Zero(neg) == IF neg THEN NegZero ELSE Fin(0, 1)

IsZero(a) == a.c = "fin" /\ a.n = 0

\* Go float64 +
FAdd(a, b) ==
    IF a.c = "nan" \/ b.c = "nan" THEN NaN
    ELSE IF a.c = "inf" /\ b.c = "inf" THEN (IF a.neg = b.neg THEN a ELSE NaN)
    ELSE IF a.c = "inf" THEN a
    ELSE IF b.c = "inf" THEN b
    ELSE LET n == a.n * b.d + b.n * a.d IN
         IF n = 0 THEN Zero(IsZero(a) /\ IsZero(b) /\ a.neg /\ b.neg)
         ELSE Fin(n, a.d * b.d)

FNeg(a) ==
    IF a.c = "nan" THEN NaN
    ELSE IF a.c = "inf" THEN Inf(~a.neg)
    ELSE IF a.n = 0 THEN Zero(~a.neg)
    ELSE Fin(-a.n, a.d)

\* Go float64 -
FSub(a, b) == FAdd(a, FNeg(b))

\* Go float64 *
FMul(a, b) ==
    IF a.c = "nan" \/ b.c = "nan" THEN NaN
    ELSE IF a.c = "inf" \/ b.c = "inf"
         THEN (IF IsZero(a) \/ IsZero(b) THEN NaN ELSE Inf(a.neg # b.neg))
    ELSE IF a.n * b.n = 0 THEN Zero(a.neg # b.neg)
    ELSE Fin(a.n * b.n, a.d * b.d)

\* Go float64 /
FDiv(a, b) ==
    IF a.c = "nan" \/ b.c = "nan" THEN NaN
    ELSE IF a.c = "inf" THEN (IF b.c = "inf" THEN NaN ELSE Inf(a.neg # b.neg))
    ELSE IF b.c = "inf" THEN Zero(a.neg # b.neg)
    ELSE IF b.n = 0 THEN (IF a.n = 0 THEN NaN ELSE Inf(a.neg # b.neg))
    ELSE IF a.n = 0 THEN Zero(a.neg # b.neg)
    ELSE Fin(a.n * b.d, a.d * b.n)

\* Go float64 <
FLt(a, b) ==
    IF a.c = "nan" \/ b.c = "nan" THEN FALSE
    ELSE IF a.c = "inf" THEN a.neg /\ ~(b.c = "inf" /\ b.neg)
    ELSE IF b.c = "inf" THEN ~b.neg
    ELSE a.n * b.d < b.n * a.d

\* Go float64 ==
FEq(a, b) ==
    /\ a.c # "nan" /\ b.c # "nan"
    /\ a.c = b.c
    /\ IF a.c = "inf" THEN a.neg = b.neg ELSE a.n = b.n /\ a.d = b.d

\* Go == on two interface{} values: the same dynamic type and equal values
DynEq(a, b) ==
    /\ a.t = b.t
    /\ CASE a.t = "nil" -> TRUE
         [] a.t = "float" -> FEq(a, b)
         [] a.t = "string" -> a.s = b.s
         [] a.t = "bool" -> a.b = b.b

(***************************************************************************)
(* strconv.ParseFloat on the strings of the model: digits with at most one *)
(* dot and at least one digit.                                             *)
(***************************************************************************)
DigitValue(ch) == (CHOOSE i \in DOMAIN Digits : Digits[i] = ch) - 1

RECURSIVE Pow10(_)
Pow10(k) == IF k = 0 THEN 1 ELSE 10 * Pow10(k - 1)

\* the number the digit string s (dots skipped) denotes
RECURSIVE DigitsValue(_)
DigitsValue(s) ==
    IF s = <<>> THEN 0
    ELSE LET last == s[Len(s)]
             front == SubSeq(s, 1, Len(s) - 1)
         IN IF last = "." THEN DigitsValue(front)
            ELSE 10 * DigitsValue(front) + DigitValue(last)

ParseFloat(s) ==
    LET dots == {i \in DOMAIN s : s[i] = "."}
        digs == {i \in DOMAIN s : isDigit(s[i])}
    IN IF digs # {} /\ Cardinality(dots) <= 1 /\ dots \cup digs = DOMAIN s
       THEN [ok |-> TRUE,
             val |-> Fin(DigitsValue(s),
                         IF dots = {} THEN 1
                         ELSE Pow10(Len(s) - (CHOOSE i \in dots : TRUE)))]
       ELSE [ok |-> FALSE, val |-> Fin(0, 1)]

toFloat(v) ==
    IF v.t = "float" THEN v
    ELSE IF v.t = "string" THEN ParseFloat(v.s).val
    ELSE Fin(0, 1)

toBool(v) ==
    IF v.t = "bool" THEN v.b
    ELSE IF v.t = "float" THEN ~FEq(v, Fin(0, 1))
    ELSE IF v.t = "string" THEN v.s # <<>>
    ELSE FALSE

(***************************************************************************)
(* Tables (array.Record): a schema of fields and one array per field.      *)
(***************************************************************************)
Field(name, type, nullable) == [Name |-> name, Type |-> type, Nullable |-> nullable]
Array(type, cells) == [Type |-> type, cells |-> cells]
Record(schema, cols, rows) == [schema |-> schema, cols |-> cols, rows |-> rows]

findColumnIndex(tbl, name) ==
    LET hits == {i \in DOMAIN tbl.schema : tbl.schema[i].Name = name} IN
    IF hits = {} THEN -1
    ELSE (CHOOSE i \in hits : \A j \in hits : i <= j) - 1

Val(v) == [val |-> v, err |-> ""]
Err(e) == [val |-> Nil, err |-> e]

OpPlus == <<"+">>
OpMinus == <<"-">>
OpTimes == <<"*">>
OpDiv == <<"/">>
OpGt == <<">">>
OpLt == <<"<">>
OpEq == <<"=">>
OpAnd == <<"A","N","D">>
OpOr == <<"O","R">>

\* the arithmetic and comparison cases of the operator switch, on
\* l = toFloat(left) and r = toFloat(right)
FloatOp(op, l, r) ==
    CASE op = OpPlus -> FAdd(l, r)
      [] op = OpMinus -> FSub(l, r)
      [] op = OpTimes -> FMul(l, r)
      [] op = OpDiv -> FDiv(l, r)
      [] op = OpGt -> Bool(FLt(r, l))
      [] op = OpLt -> Bool(FLt(l, r))

\* the operator switch failing on an operand that is nil
ApplyOpNilFails(op, left, right) ==
    IF left.t = "nil" \/ right.t = "nil" THEN Err("operand failed")
    ELSE IF op \in {OpPlus, OpMinus, OpTimes, OpDiv, OpGt, OpLt}
    THEN Val(FloatOp(op, toFloat(left), toFloat(right)))
    ELSE IF op = OpEq THEN Val(Bool(DynEq(left, right)))
    ELSE IF op = OpAnd THEN Val(Bool(toBool(left) /\ toBool(right)))
    ELSE IF op = OpOr THEN Val(Bool(toBool(left) \/ toBool(right)))
    ELSE Err("unsupported operator")

\* the operator switch of evaluateExpression, on the two operand values
ApplyOp(op, left, right) ==
    IF op \in {OpPlus, OpMinus, OpTimes, OpDiv, OpGt, OpLt}
    THEN Val(FloatOp(op, toFloat(left), toFloat(right)))
    ELSE IF op = OpEq THEN Val(Bool(DynEq(left, right)))
    ELSE IF op = OpAnd THEN Val(Bool(toBool(left) /\ toBool(right)))
    ELSE IF op = OpOr THEN Val(Bool(toBool(left) \/ toBool(right)))
    ELSE Err("unsupported operator")

\* evaluateExpression of the three versions of executor.go ("agg": the
\* version with aggregates and GROUP BY; "expr" and "col": the two earlier
\* versions, whose type switch has no StarExpr and no FuncCall case)
RECURSIVE evaluateExpression(_, _, _, _)
evaluateExpression(ver, expr, tbl, r) ==
    CASE expr.node = "ColumnRef" ->
            LET colIdx == findColumnIndex(tbl, expr.Name) IN
            IF colIdx = -1 THEN Err("column not found")
            ELSE LET arr == tbl.cols[colIdx + 1] IN
                 IF arr.Type \in {"float64", "string"}
                 THEN Val(arr.cells[r + 1])
                 ELSE Err("unsupported column type")
      [] expr.node = "Literal" ->
            LET f == ParseFloat(expr.Value) IN
            IF f.ok THEN Val(f.val) ELSE Val(Str(expr.Value))
      [] expr.node = "BinaryExpr" ->
            ApplyOp(expr.Op, evaluateExpression(ver, expr.Left, tbl, r).val,
                    evaluateExpression(ver, expr.Right, tbl, r).val)
      [] expr.node = "StarExpr" /\ ver = "agg" -> Val(Str(<<"*">>))
      [] expr.node = "FuncCall" /\ ver = "agg" -> Err("nested function calls not supported")
      [] OTHER -> Err("unsupported expression")

(***************************************************************************)
(* What ExecuteQuery gives back: a record, an error, a panic that unwinds  *)
(* the caller, or (nil, nil).                                              *)
(***************************************************************************)
NoRecord == Record(<<>>, <<>>, 0)
RTable(rec) == [kind |-> "table", rec |-> rec, err |-> ""]
RError(e) == [kind |-> "error", rec |-> NoRecord, err |-> e]
RPanic(m) == [kind |-> "panic", rec |-> NoRecord, err |-> m]
RNilNil == [kind |-> "nil", rec |-> NoRecord, err |-> ""]
RNone == [kind |-> "none", rec |-> NoRecord, err |-> ""]

\* the first element of the sequence of results rs that is not "ok", or ok
FirstFailure(rs, ok) ==
    LET bad == {i \in DOMAIN rs : rs[i].kind # "ok"} IN
    IF bad = {} THEN ok ELSE rs[CHOOSE i \in bad : \A j \in bad : i <= j]

\* arrow.NewSchema and array.NewRecord of the arrow library: NewSchema panics on
\* a field without a DataType, NewRecord on a column shorter than the row
\* count or of another type than its field
NewRecord(fields, arrays, nrows) ==
    IF \E i \in DOMAIN fields : fields[i].Type = "nil"
    THEN RPanic("arrow: field with nil DataType")
    ELSE IF Len(arrays) # Len(fields)
    THEN RPanic("arrow/array: number of columns/fields mismatch")
    ELSE IF \E i \in DOMAIN arrays : Len(arrays[i].cells) < nrows
    THEN RPanic("arrow/array: mismatch number of rows in column")
    ELSE IF \E i \in DOMAIN arrays : arrays[i].Type # fields[i].Type
    THEN RPanic("arrow/array: column type mismatch")
    ELSE RTable(Record(fields, arrays, nrows))

\* fmt.Sprintf("expr_%d", i)
RECURSIVE IntDigits(_)
IntDigits(n) ==
    IF n < 10 THEN <<Digits[n + 1]>> ELSE IntDigits(n \div 10) \o <<Digits[(n % 10) + 1]>>

ExprName(i) == <<"e","x","p","r","_">> \o IntDigits(i)

(***************************************************************************)
(* Aggregates.                                                             *)
(***************************************************************************)
FnCount == <<"C","O","U","N","T">>
FnSum == <<"S","U","M">>
FnAvg == <<"A","V","G">>
FnMax == <<"M","A","X">>
FnMin == <<"M","I","N">>

\* the evaluations of arg on the rows of indices, in order
ArgValues(arg, tbl, indices) ==
    [k \in DOMAIN indices |-> evaluateExpression("agg", arg, tbl, indices[k])]

FirstError(rs) ==
    LET bad == {k \in DOMAIN rs : rs[k].err # ""} IN
    IF bad = {} THEN "" ELSE rs[CHOOSE k \in bad : \A j \in bad : k <= j].err

\* nums of evalAggregateFunction: the float of every non-nil value, in order
RECURSIVE Nums(_)
Nums(rs) ==
    IF rs = <<>> THEN <<>>
    ELSE (IF rs[1].val.t = "nil" THEN <<>> ELSE <<toFloat(rs[1].val)>>) \o Nums(Tail(rs))

RECURSIVE SumOf(_, _)
SumOf(nums, acc) == IF nums = <<>> THEN acc ELSE SumOf(Tail(nums), FAdd(acc, nums[1]))

RECURSIVE MaxOf(_, _)
MaxOf(nums, max) ==
    IF nums = <<>> THEN max
    ELSE MaxOf(Tail(nums), IF FLt(max, nums[1]) THEN nums[1] ELSE max)

RECURSIVE MinOf(_, _)
MinOf(nums, min) ==
    IF nums = <<>> THEN min
    ELSE MinOf(Tail(nums), IF FLt(nums[1], min) THEN nums[1] ELSE min)

\* COUNT(expr) counting every row, null or not
CountAllValues(rs) ==
    IF FirstError(rs) # "" THEN Err(FirstError(rs)) ELSE Val(Fin(Len(rs), 1))

\* COUNT(arg) from the evaluations rs of arg: the first error, or the number
\* of values that are not nil
CountValues(rs) ==
    IF FirstError(rs) # "" THEN Err(FirstError(rs)) ELSE Val(Fin(Len(Nums(rs)), 1))

\* the inner switch on name, over nums
ReduceNums(name, nums) ==
    IF name = FnSum THEN SumOf(nums, Fin(0, 1))
    ELSE IF nums = <<>> THEN Fin(0, 1)
    ELSE IF name = FnAvg THEN FDiv(SumOf(nums, Fin(0, 1)), Fin(Len(nums), 1))
    ELSE IF name = FnMax THEN MaxOf(Tail(nums), nums[1])
    ELSE MinOf(Tail(nums), nums[1])

\* SUM, AVG, MAX, MIN from the evaluations rs of the argument
ReduceValues(name, rs) ==
    IF FirstError(rs) # "" THEN Err(FirstError(rs)) ELSE Val(ReduceNums(name, Nums(rs)))

evalAggregateFunction(f, tbl, indices) ==
    LET name == ToUpper(f.Name) IN
    IF name = FnCount
    THEN IF Len(f.Args) = 1
         THEN IF f.Args[1].node = "StarExpr"
              THEN Val(Fin(Len(indices), 1))
              ELSE CountValues(ArgValues(f.Args[1], tbl, indices))
         ELSE Err("unsupported aggregate function")
    ELSE IF name \in {FnSum, FnAvg, FnMax, FnMin}
    THEN IF Len(f.Args) # 1 THEN Err("expects one argument")
         ELSE ReduceValues(name, ArgValues(f.Args[1], tbl, indices))
    ELSE Err("unsupported aggregate function")

\* the record of executeAggregates from the results rs of its loop
AggregateRecord(rs) ==
    IF FirstError(rs) # "" THEN RError(FirstError(rs))
    ELSE NewRecord([i \in DOMAIN rs |-> Field(ExprName(i - 1), "float64", FALSE)],
                   [i \in DOMAIN rs |-> Array("float64", <<rs[i].val>>)],
                   1)

executeAggregates(exprs, tbl, indices) ==
    AggregateRecord([i \in DOMAIN exprs |->
                        IF exprs[i].node # "FuncCall"
                        THEN Err("non-aggregate in aggregate-only projection")
                        ELSE evalAggregateFunction(exprs[i], tbl, indices)])

(***************************************************************************)
(* GROUP BY.                                                               *)
(***************************************************************************)
\* fmt.Sprintf("%v", p) of a float64 (format 'g', shortest digits), for whole
\* numbers and numbers with up to three decimals; "?" beyond
FormatFloat(a) ==
    IF a.c = "nan" THEN <<"N","a","N">>
    ELSE IF a.c = "inf" THEN (IF a.neg THEN <<"-">> ELSE <<"+">>) \o <<"I","n","f">>
    ELSE LET sign == IF a.neg THEN <<"-">> ELSE <<>>
             whole == IntDigits(Abs(a.n) \div a.d)
             ks == {k \in 1..3 : Pow10(k) % a.d = 0}
         IN IF a.d = 1 THEN sign \o whole
            ELSE IF ks = {} THEN <<"?">>
            ELSE LET k == CHOOSE x \in ks : \A y \in ks : x <= y
                     frac == IntDigits(((Abs(a.n) % a.d) * Pow10(k)) \div a.d)
                     pad == [i \in 1..(k - Len(frac)) |-> "0"]
                 IN sign \o whole \o <<".">> \o pad \o frac

\* fmt.Sprintf("%v", p)
FormatValue(v) ==
    CASE v.t = "nil" -> <<"<","n","i","l",">">>
      [] v.t = "string" -> v.s
      [] v.t = "bool" -> IF v.b THEN <<"t","r","u","e">> ELSE <<"f","a","l","s","e">>
      [] v.t = "float" -> FormatFloat(v)

\* strings.Join(s, "|")
RECURSIVE JoinBar(_)
JoinBar(ss) ==
    IF ss = <<>> THEN <<>>
    ELSE IF Len(ss) = 1 THEN ss[1]
    ELSE ss[1] \o <<"|">> \o JoinBar(Tail(ss))

\* groupKey.String
groupKeyString(parts) == JoinBar([i \in DOMAIN parts |-> FormatValue(parts[i])])

\* the characters of the model in byte order
Ascii == <<"*", "+", "-", ".">> \o Digits \o <<"<", ">", "?">> \o Upper
         \o <<"_">> \o Lower \o <<"|">>

Ord(ch) == CHOOSE i \in DOMAIN Ascii : Ascii[i] = ch

\* Go string <
RECURSIVE StrLess(_, _)
StrLess(a, b) ==
    IF b = <<>> THEN FALSE
    ELSE IF a = <<>> THEN TRUE
    ELSE IF a[1] = b[1] THEN StrLess(Tail(a), Tail(b))
    ELSE Ord(a[1]) < Ord(b[1])

\* sort.Strings on the keys of the map
RECURSIVE SortStrings(_)
SortStrings(S) ==
    IF S = {} THEN <<>>
    ELSE LET m == CHOOSE x \in S : \A y \in S \ {x} : StrLess(x, y)
         IN <<m>> \o SortStrings(S \ {m})

\* keyParts and gkey from the evaluations rs of the GROUP BY expressions
KeyFrom(rs) ==
    [err |-> FirstError(rs), key |-> groupKeyString([i \in DOMAIN rs |-> rs[i].val])]

\* the key of one row: the GROUP BY expressions evaluated in order
RowKey(qry, tbl, r) ==
    KeyFrom([i \in DOMAIN qry.GroupBy |-> evaluateExpression("agg", qry.GroupBy[i], tbl, r)])

\* groupMap[gkey] = append(groupMap[gkey], row)
AppendRow(groupMap, gkey, r) ==
    IF gkey \in DOMAIN groupMap
    THEN [groupMap EXCEPT ![gkey] = Append(@, r)]
    ELSE [x \in DOMAIN groupMap \cup {gkey} |-> IF x = gkey THEN <<r>> ELSE groupMap[x]]

\* the first loop of executeGroupedQuery, keys[k] being the key of row
\* indices[k]: groupMap, or the first error
RECURSIVE GroupRows(_, _, _)
GroupRows(keys, indices, groupMap) ==
    IF indices = <<>> THEN [err |-> "", groupMap |-> groupMap]
    ELSE IF keys[1].err # "" THEN [err |-> keys[1].err, groupMap |-> groupMap]
    ELSE GroupRows(Tail(keys), Tail(indices), AppendRow(groupMap, keys[1].key, indices[1]))

EmptyMap == [x \in {} |-> <<>>]

Step(kind, v, e) == [kind |-> kind, val |-> v, err |-> e]

\* the builder created for projection expr, or the error returned
BuilderFor(expr, tbl) ==
    IF expr.node = "ColumnRef"
    THEN LET colIdx == findColumnIndex(tbl, expr.Name) IN
         IF colIdx = -1 THEN Step("error", "", "column not found")
         ELSE IF tbl.cols[colIdx + 1].Type \in {"string", "float64"}
              THEN Step("ok", tbl.cols[colIdx + 1].Type, "")
              ELSE Step("error", "", "unsupported data type in GROUP BY")
    ELSE IF expr.node = "FuncCall" THEN Step("ok", "float64", "")
    ELSE Step("error", "", "unsupported expression type in GROUP BY projections")

\* b.Append(val.(string)) and b.Append(toFloat(val))
AppendColumnValue(builder, val) ==
    IF builder = "string"
    THEN IF val.t = "string" THEN Step("ok", val, "")
         ELSE Step("panic", Nil, "interface conversion: interface {} is nil, not string")
    ELSE Step("ok", toFloat(val), "")

\* the append of an aggregate, or its error
AppendAggregate(r) ==
    IF r.err # "" THEN Step("error", Nil, r.err) ELSE Step("ok", r.val, "")

\* the value appended to the builder of projection expr for the group rows
GroupCell(expr, builder, tbl, rows) ==
    IF expr.node = "ColumnRef"
    THEN AppendColumnValue(builder, evaluateExpression("agg", expr, tbl, rows[1]).val)
    ELSE AppendAggregate(evalAggregateFunction(expr, tbl, rows))

\* fieldTypes[i] once a group was processed
GroupField(expr, tbl) ==
    IF expr.node = "ColumnRef"
    THEN Field(expr.Name, tbl.cols[findColumnIndex(tbl, expr.Name) + 1].Type, FALSE)
    ELSE Field(ToUpper(expr.Name), "float64", FALSE)

\* the zero value of arrow.Field
ZeroField == Field(<<>>, "nil", FALSE)

\* the end of executeGroupedQuery: cells holds the appends in the order of
\* the nested loops, group by group, projection by projection
GroupedRecord(qry, tbl, groupKeys, builders, cells) ==
    LET np == Len(qry.Projections)
        failed == FirstFailure(cells, Step("ok", Nil, ""))
    IN IF failed.kind = "error" THEN RError(failed.err)
       ELSE IF failed.kind = "panic" THEN RPanic(failed.err)
       ELSE NewRecord(
              [i \in 1..np |-> IF groupKeys = <<>> THEN ZeroField
                               ELSE GroupField(qry.Projections[i], tbl)],
              [i \in 1..np |-> Array(builders[i].val,
                                     [gi \in 1..Len(groupKeys) |-> cells[(gi - 1) * np + i].val])],
              Len(groupKeys))

\* executeGroupedQuery from the creation of the builders on
GroupedOutput(qry, tbl, groupMap, groupKeys, builders) ==
    LET np == Len(qry.Projections)
        created == FirstFailure(builders, Step("ok", "", ""))
    IN IF created.kind # "ok" THEN RError(created.err)
       ELSE GroupedRecord(qry, tbl, groupKeys, builders,
               [n \in 1..(Len(groupKeys) * np) |->
                   GroupCell(qry.Projections[((n - 1) % np) + 1],
                             builders[((n - 1) % np) + 1].val, tbl,
                             groupMap[groupKeys[((n - 1) \div np) + 1]])])

\* executeGroupedQuery once the rows are grouped
GroupedQuery(qry, tbl, g) ==
    IF g.err # "" THEN RError(g.err)
    ELSE GroupedOutput(qry, tbl, g.groupMap, SortStrings(DOMAIN g.groupMap),
                       [i \in DOMAIN qry.Projections |-> BuilderFor(qry.Projections[i], tbl)])

executeGroupedQuery(qry, tbl, indices) ==
    GroupedQuery(qry, tbl,
                 GroupRows([k \in DOMAIN indices |-> RowKey(qry, tbl, indices[k])],
                           indices, EmptyMap))

(***************************************************************************)
(* Projection without aggregates, in the three versions.                   *)
(***************************************************************************)
Column(kind, arr, fld, e) == [kind |-> kind, arr |-> arr, field |-> fld, err |-> e]

NoArray == Array("nil", <<>>)

\* the float64 column built from the evaluations rs of projection i
ExprColumn(i, rs) ==
    IF FirstError(rs) # ""
    THEN Column("error", NoArray, ZeroField, FirstError(rs))
    ELSE Column("ok",
                Array("float64", [k \in DOMAIN rs |->
                         IF rs[k].val.t = "nil" THEN Nil ELSE toFloat(rs[k].val)]),
                Field(ExprName(i), "float64", TRUE), "")

\* the table's array and field of column colIdx, passed through
TableColumn(tbl, colIdx) ==
    IF colIdx = -1 THEN Column("error", NoArray, ZeroField, "column not found")
    ELSE Column("ok", tbl.cols[colIdx + 1], tbl.schema[colIdx + 1], "")

\* one projection of the versions "agg" and "expr": a ColumnRef passes the
\* table's array and field through, any other expression is evaluated on the
\* rows of indices into a new nullable float64 array
ProjectOne(ver, i, expr, tbl, indices) ==
    IF expr.node = "ColumnRef"
    THEN TableColumn(tbl, findColumnIndex(tbl, expr.Name))
    ELSE ExprColumn(i, [k \in DOMAIN indices |-> evaluateExpression(ver, expr, tbl, indices[k])])

\* the copy of column colIdx for the rows of indices
CopiedColumn(tbl, colIdx, indices) ==
    IF colIdx = -1 THEN Column("error", NoArray, ZeroField, "column not found")
    ELSE IF tbl.cols[colIdx + 1].Type \in {"float64", "string"}
    THEN Column("ok",
                Array(tbl.cols[colIdx + 1].Type,
                      [k \in DOMAIN indices |-> tbl.cols[colIdx + 1].cells[indices[k] + 1]]),
                tbl.schema[colIdx + 1], "")
    ELSE Column("error", NoArray, ZeroField, "unsupported column type")

\* one projection of the version "col": only a ColumnRef, copied row by row
\* for the rows of indices
ProjectColumnOnly(expr, tbl, indices) ==
    IF expr.node # "ColumnRef"
    THEN Column("error", NoArray, ZeroField, "unsupported projection type")
    ELSE CopiedColumn(tbl, findColumnIndex(tbl, expr.Name), indices)

\* the output record from the projected columns, or the first error
ProjectedRecord(cols, nrows) ==
    IF FirstFailure(cols, Column("ok", NoArray, ZeroField, "")).kind # "ok"
    THEN RError(FirstFailure(cols, Column("ok", NoArray, ZeroField, "")).err)
    ELSE NewRecord([i \in DOMAIN cols |-> cols[i].field],
                   [i \in DOMAIN cols |-> cols[i].arr],
                   nrows)

\* steps 2/3 of ExecuteQuery without aggregates: the projections in order,
\* then the output record
projectRows(ver, qry, tbl, indices) ==
    ProjectedRecord([i \in DOMAIN qry.Projections |->
                        IF ver = "col"
                        THEN ProjectColumnOnly(qry.Projections[i], tbl, indices)
                        ELSE ProjectOne(ver, i - 1, qry.Projections[i], tbl, indices)],
                    Len(indices))

\* allAgg taken only when the query has no GROUP BY
allAggWithoutGroupBy(qry) ==
    /\ \A i \in DOMAIN qry.Projections : qry.Projections[i].node = "FuncCall"
    /\ Len(qry.GroupBy) = 0

\* allAgg of ExecuteQuery
allAgg(qry) == \A i \in DOMAIN qry.Projections : qry.Projections[i].node = "FuncCall"

(***************************************************************************)
(* ExecuteQuery.                                                           *)
(***************************************************************************)
\* what the filter loop does with the value res of WHERE on a row
WhereOutcome(ver, res) ==
    IF res.err # "" THEN [kind |-> "return", ret |-> RError(res.err)]
    ELSE IF res.val.t # "bool"
    THEN [kind |-> "return",
          ret |-> IF ver = "col" THEN RNilNil
                  ELSE IF ver = "expr"
                  THEN RError("WHERE clause did not evaluate to boolean at row")
                  ELSE RError("WHERE clause must evaluate to boolean")]
    ELSE [kind |-> IF res.val.b THEN "pass" ELSE "drop", ret |-> RNone]

\* the filter loop with pass left true when WHERE is false
filterRowKeepsAll(ver, qry, tbl, r) ==
    IF qry.Where.node = "nil" THEN [kind |-> "pass", ret |-> RNone]
    ELSE [WhereOutcome(ver, evaluateExpression(ver, qry.Where, tbl, r))
             EXCEPT !.kind = IF @ = "drop" THEN "pass" ELSE @]

\* one iteration of the filter loop of ExecuteQuery on row r: the row passes,
\* is dropped, or the function returns
filterRow(ver, qry, tbl, r) ==
    IF qry.Where.node = "nil" THEN [kind |-> "pass", ret |-> RNone]
    ELSE WhereOutcome(ver, evaluateExpression(ver, qry.Where, tbl, r))

\* the filter loop of ExecuteQuery from row r on
RECURSIVE filterRows(_, _, _, _, _)
filterRows(ver, qry, tbl, r, indices) ==
    IF r >= tbl.rows THEN [ret |-> RNone, passIndices |-> indices]
    ELSE LET f == filterRow(ver, qry, tbl, r) IN
         IF f.kind = "return" THEN [ret |-> f.ret, passIndices |-> indices]
         ELSE filterRows(ver, qry, tbl, r + 1,
                         IF f.kind = "pass" THEN Append(indices, r) ELSE indices)

\* what ExecuteQuery does after the filter loop
afterFilter(ver, qry, tbl, indices) ==
    IF ver = "agg" /\ allAgg(qry) THEN executeAggregates(qry.Projections, tbl, indices)
    ELSE IF ver = "agg" /\ Len(qry.GroupBy) > 0 THEN executeGroupedQuery(qry, tbl, indices)
    ELSE projectRows(ver, qry, tbl, indices)

\* ExecuteQuery as a function of its arguments
ExecuteQuery(ver, qry, tbl) ==
    LET f == filterRows(ver, qry, tbl, 0, <<>>) IN
    IF f.ret.kind # "none" THEN f.ret ELSE afterFilter(ver, qry, tbl, f.passIndices)

(***************************************************************************)
(* Inputs of ExecuteQuery: tables over the columns R (string) and v        *)
(* (float64), and queries over them.                                       *)
(***************************************************************************)
ColR == ColumnRef(<<"R">>)
ColV == ColumnRef(<<"v">>)
ColMissing == ColumnRef(<<"m">>)
Lit(s) == Literal(s)

TableSchema == <<Field(<<"R">>, "string", TRUE), Field(<<"v">>, "float64", TRUE)>>

RowValues ==
    { <<Str(<<"B">>), Fin(2, 1)>>, <<Str(<<"B">>), Fin(10, 1)>>, <<Str(<<"7">>), Fin(2, 1)>>,
      <<Nil, Fin(10, 1)>>, <<Str(<<"7">>), Nil>> }

MakeTable(rows) ==
    Record(TableSchema,
           <<Array("string", [i \in DOMAIN rows |-> rows[i][1]]),
             Array("float64", [i \in DOMAIN rows |-> rows[i][2]])>>,
           Len(rows))

InputTables == {MakeTable(rows) : rows \in UNION {[1..n -> RowValues] : n \in 0..MaxRows}}

Query(projs, wh, gb) ==
    [Projections |-> projs, TableName |-> <<"t">>, Where |-> wh, GroupBy |-> gb]

CountStar == FuncCall(FnCount, <<StarExpr>>)

Wheres ==
    { NilExpr,
      BinaryExpr(ColV, OpGt, Lit(<<"5">>)),
      BinaryExpr(BinaryExpr(ColV, OpLt, Lit(<<"5">>)), OpOr, BinaryExpr(ColR, OpEq, Lit(<<"7">>))),
      BinaryExpr(ColMissing, OpGt, Lit(<<"5">>)),
      BinaryExpr(ColV, OpPlus, Lit(<<"1">>)),
      BinaryExpr(ColV, OpEq, Lit(<<"2">>)),
      ColR,
      ColMissing }

PlainProjs ==
    { <<ColR>>, <<ColV, ColR>>, <<BinaryExpr(ColV, OpDiv, Lit(<<"4">>)), ColR>>, <<ColMissing>> }

AggProjs ==
    { <<CountStar>>,
      <<FuncCall(FnSum, <<ColV>>), CountStar>>,
      <<FuncCall(<<"c","o","u","n","t">>, <<ColV>>), FuncCall(FnAvg, <<ColV>>)>>,
      <<FuncCall(FnMax, <<ColV>>), FuncCall(FnMin, <<BinaryExpr(ColV, OpTimes, Lit(<<"2">>))>>)>>,
      <<FuncCall(<<"F","O","O">>, <<ColV>>)>>,
      <<FuncCall(FnCount, <<>>)>>,
      <<FuncCall(FnSum, <<ColV, ColV>>)>>,
      <<FuncCall(FnSum, <<ColMissing>>)>> }

MixedProjs ==
    { <<ColR, CountStar>>, <<CountStar, ColV>>,
      <<BinaryExpr(ColV, OpPlus, Lit(<<"1">>)), FuncCall(FnSum, <<ColV>>)>> }

GroupedProjs ==
    { <<ColR, CountStar>>, <<ColV, CountStar>>, <<ColR, FuncCall(FnSum, <<ColV>>)>>,
      <<CountStar, ColV>>,
      <<ColR, BinaryExpr(ColV, OpPlus, Lit(<<"1">>))>>, <<ColMissing, CountStar>> }

GroupBys == { <<ColR>>, <<ColV>>, <<ColR, ColV>>, <<ColMissing>> }

GroupedWheres ==
    { NilExpr, BinaryExpr(ColV, OpGt, Lit(<<"5">>)), BinaryExpr(ColMissing, OpGt, Lit(<<"5">>)) }

\* the runs of the model: a version of ExecuteQuery and the query it is given.
\* GroupedRuns are the runs that reach executeGroupedQuery.
GroupedRuns ==
    {[ver |-> "agg", query |-> Query(ps, w, gb)] :
        ps \in GroupedProjs, w \in GroupedWheres, gb \in GroupBys}

OtherRuns ==
    {[ver |-> "agg", query |-> Query(ps, w, <<>>)] :
        ps \in PlainProjs \cup AggProjs \cup MixedProjs, w \in Wheres}
    \cup {[ver |-> "agg", query |-> Query(ps, w, gb)] :
        ps \in {<<CountStar>>, <<FuncCall(FnSum, <<ColV>>), CountStar>>},
        w \in GroupedWheres, gb \in GroupBys}
    \cup {[ver |-> v, query |-> Query(ps, w, <<>>)] :
        v \in {"expr", "col"}, ps \in PlainProjs \cup {<<CountStar>>}, w \in Wheres}

ParserIdle ==
    /\ src = SourceQuery("none", <<>>, <<>>, <<>>, <<>>, "spaced")
    /\ input = <<>>
    /\ pos = 0
    /\ curr = ZeroToken
    /\ projections = <<>>
    /\ tableName = <<>>
    /\ where = NilExpr
    /\ ppc = "idle"
    /\ panicMsg = ""
    /\ rendered = NoQuery

\* ExecuteQuery is called with a run's query on one of the tables
Called(runs) ==
    \E run \in runs :
        /\ variant = run.ver
        /\ q = run.query
        /\ table \in InputTables

Init ==
    /\ Called(GroupedRuns) \/ Called(OtherRuns)
    /\ row = 0
    /\ passIndices = <<>>
    /\ epc = "filter"
    /\ result = RNone
    /\ ParserIdle

Return(res) ==
    /\ result' = res
    /\ epc' = "done"

\* the end of one iteration, f being what the iteration does with the row
FilterStep(f) ==
    IF f.kind = "return"
    THEN Return(f.ret) /\ UNCHANGED <<row, passIndices>>
    ELSE /\ passIndices' = IF f.kind = "pass" THEN Append(passIndices, row)
                           ELSE passIndices
         /\ row' = row + 1
         /\ UNCHANGED <<epc, result>>

\* one iteration of the loop "for row := 0; row < totalRows; row++"
FilterRow ==
    /\ epc = "filter"
    /\ row < table.rows
    /\ FilterStep(filterRow(variant, q, table, row))
    /\ UNCHANGED <<variant, q, table, pvars>>

FilterDone == epc = "filter" /\ row >= table.rows

\* "if allAgg { return executeAggregates(...) }"
ExecuteAggregates ==
    /\ FilterDone
    /\ variant = "agg"
    /\ allAgg(q)
    /\ Return(executeAggregates(q.Projections, table, passIndices))
    /\ UNCHANGED <<variant, q, table, row, passIndices, pvars>>

\* "if len(q.GroupBy) > 0 { return executeGroupedQuery(...) }"
ExecuteGroupedQuery ==
    /\ FilterDone
    /\ variant = "agg"
    /\ ~allAgg(q)
    /\ Len(q.GroupBy) > 0
    /\ Return(executeGroupedQuery(q, table, passIndices))
    /\ UNCHANGED <<variant, q, table, row, passIndices, pvars>>

\* step 3 of the version with aggregates: regular projection
ProjectRegular ==
    /\ FilterDone
    /\ variant = "agg"
    /\ ~allAgg(q)
    /\ Len(q.GroupBy) = 0
    /\ Return(projectRows("agg", q, table, passIndices))
    /\ UNCHANGED <<variant, q, table, row, passIndices, pvars>>

\* steps 2 and 3 of the version with expression projections
ProjectExpressions ==
    /\ FilterDone
    /\ variant = "expr"
    /\ Return(projectRows("expr", q, table, passIndices))
    /\ UNCHANGED <<variant, q, table, row, passIndices, pvars>>

\* the projection of the version with column projections only
ProjectColumns ==
    /\ FilterDone
    /\ variant = "col"
    /\ Return(projectRows("col", q, table, passIndices))
    /\ UNCHANGED <<variant, q, table, row, passIndices, pvars>>

Next ==
    \/ FilterRow
    \/ ExecuteAggregates
    \/ ExecuteGroupedQuery
    \/ ProjectRegular
    \/ ProjectExpressions
    \/ ProjectColumns

Spec == Init /\ [][Next]_vars

(***************************************************************************)
(* Properties of the parser.                                               *)
(***************************************************************************)
ParseEnded == ppc \in {"done", "panic"}

\* the AST an operand lexeme stands for
OperandExpr(lex) == IF isLetter(lex[1]) THEN ColumnRef(lex) ELSE Literal(lex)

\* the AST a comparison l op r stands for
ComparisonExpr(c) == BinaryExpr(OperandExpr(c[1]), c[2], OperandExpr(c[3]))

ExpectedSimple(s) ==
    [Projections |-> [i \in DOMAIN s.projs |-> OperandExpr(s.projs[i])],
     TableName |-> s.table,
     Where |-> IF s.where = <<>> THEN NilExpr ELSE ComparisonExpr(s.where)]

\* C6: for every string SELECT p1, ..., pn FROM t [WHERE l op r] (operands
\* identifiers or numeric literals, op one of > < =) neither NewParser nor
\* Parse panics, and the Query returned has the projections p1..pn in order
\* (identifier -> ColumnRef with the name as written, literal -> Literal with
\* the raw lexeme), TableName t, and Where nil without a WHERE clause and
\* BinaryExpr{l, op, r} otherwise.
C6_SimpleSelectParsed ==
    src.kind = "simple" =>
        /\ ppc # "panic"
        /\ ppc = "done" => ParsedQuery = ExpectedSimple(src)

C6_Witness ==
    /\ src.kind = "simple"
    /\ ppc = "done"
    /\ src.style = "lower"
    /\ src.projs = <<<<"C","l">>, <<"1",".","5">>>>
    /\ src.where = <<<<"C","l">>, <<">">>, <<"1",".","5">>>>
    /\ where = BinaryExpr(ColumnRef(<<"C","l">>), <<">">>, Literal(<<"1",".","5">>))

\* C7: for every query whose WHERE clause is c1 AND c2, Parse returns a Query
\* whose Where is BinaryExpr{c1, AND, c2}; no token of the clause is dropped.
C7_AndWhereTree ==
    (src.kind = "and" /\ ParseEnded) =>
        /\ ppc = "done"
        /\ where = BinaryExpr(ComparisonExpr(SubSeq(src.where, 1, 3)), KwAnd,
                              ComparisonExpr(SubSeq(src.where, 5, 7)))

MalformedKinds ==
    {"missing FROM", "missing table", "trailing tokens", "unbalanced parenthesis",
     "unrecognized character"}

\* C8: for every malformed query string, NewParser followed by Parse never
\* returns a Query and never panics.
C8_MalformedIsError ==
    src.kind \in MalformedKinds => (ppc # "done" /\ ppc # "panic")

ExpectedArgs(args) ==
    IF args = <<<<"*">>>> THEN <<StarExpr>>
    ELSE [i \in DOMAIN args |-> OperandExpr(args[i])]

\* C9: an identifier immediately followed by ( in a projection is parsed into
\* a FuncCall carrying the identifier as Name, with a single StarExpr argument
\* for ( * ) and the argument expressions in order otherwise.
C9_FuncCallParsed ==
    (src.kind = "func" /\ ParseEnded) =>
        /\ ppc = "done"
        /\ projections =
              [i \in DOMAIN src.projs |->
                  FuncCall(src.projs[i].name, ExpectedArgs(src.projs[i].args))]

(***************************************************************************)
(* Properties of the engine.                                               *)
(***************************************************************************)
Rows(tbl) == 0..(tbl.rows - 1)

\* WHERE on row r, as a value
WhereAt(r) == evaluateExpression(variant, q.Where, table, r)

\* WHERE is absent, or evaluates to a boolean on every row of the table
WhereIsBoolean ==
    q.Where.node = "nil"
    \/ \A r \in Rows(table) : WhereAt(r).err = "" /\ WhereAt(r).val.t = "bool"

\* the rows below n on which WHERE is true (all of them without WHERE)
TrueRows(n) ==
    {r \in 0..(n - 1) : q.Where.node = "nil"
                         \/ (WhereAt(r).err = "" /\ WhereAt(r).val.t = "bool"
                             /\ WhereAt(r).val.b)}

StrictlyIncreasing(s) == \A i, j \in DOMAIN s : i < j => s[i] < s[j]

\* the table made of the rows indices of tbl, in that order
SubTable(tbl, indices) ==
    Record(tbl.schema,
           [c \in DOMAIN tbl.cols |->
               Array(tbl.cols[c].Type,
                     [k \in DOMAIN indices |-> tbl.cols[c].cells[indices[k] + 1]])],
           Len(indices))

\* C1: when WHERE is absent or boolean on every row, the filter loop never
\* returns early, and the indices it has collected after n rows are strictly
\* increasing and are exactly the rows below n on which WHERE is true; once
\* the loop is over they are the true rows of 0..N-1, and the same WHERE
\* applied to the surviving rows alone keeps every one of them.
C1_FilterExactOrderedIdempotent ==
    (epc # "idle" /\ WhereIsBoolean) =>
        /\ StrictlyIncreasing(passIndices)
        /\ Range(passIndices) = TrueRows(row)
        /\ TrueRows(row) \subseteq Rows(table)
        /\ epc = "done" => row = table.rows
        /\ row = table.rows =>
              filterRows(variant, q, SubTable(table, passIndices), 0, <<>>)
                 = [ret |-> RNone,
                    passIndices |-> [k \in DOMAIN passIndices |-> k - 1]]

C1_Witness ==
    /\ variant = "agg"
    /\ epc = "done"
    /\ q.Where = BinaryExpr(ColV, OpGt, Lit(<<"5">>))
    /\ table.rows = 3
    /\ passIndices = <<0, 2>>

\* every column a ColumnRef of the expression names is a column of tbl
RECURSIVE RefsExist(_, _)
RefsExist(expr, tbl) ==
    CASE expr.node = "ColumnRef" -> findColumnIndex(tbl, expr.Name) # -1
      [] expr.node = "BinaryExpr" -> RefsExist(expr.Left, tbl) /\ RefsExist(expr.Right, tbl)
      [] expr.node = "FuncCall" -> \A i \in DOMAIN expr.Args : RefsExist(expr.Args[i], tbl)
      [] OTHER -> TRUE

AllRefsExist(exprs, tbl) == \A i \in DOMAIN exprs : RefsExist(exprs[i], tbl)

IsCountStar(expr) ==
    expr.node = "FuncCall" /\ ToUpper(expr.Name) = FnCount /\ expr.Args = <<StarExpr>>

\* the filter loop ran to its end and ExecuteQuery has returned
ReturnedAfterFilter == epc = "done" /\ row = table.rows

\* the canonical group key of row r
KeyOf(r) == RowKey(q, table, r).key

GroupKeySet == {KeyOf(r) : r \in Range(passIndices)}

\* the keys in ascending byte order
AscendingKeys ==
    CHOOSE ks \in [1..Cardinality(GroupKeySet) -> GroupKeySet] :
        \A i, j \in DOMAIN ks : i < j => StrLess(ks[i], ks[j])

\* a query with a ColumnRef projection, a COUNT(*) projection and GROUP BY,
\* whose column references all name columns of the table
IsGroupedCount ==
    /\ variant = "agg"
    /\ Len(q.GroupBy) > 0
    /\ Len(q.Projections) = 2
    /\ \E i \in 1..2 : q.Projections[i].node = "ColumnRef"
    /\ \E i \in 1..2 : IsCountStar(q.Projections[i])
    /\ AllRefsExist(q.Projections, table)
    /\ AllRefsExist(q.GroupBy, table)

\* C2: for a query with a ColumnRef projection, a COUNT(*) projection and a
\* non-empty GROUP BY, executeGroupedQuery returns one output row per distinct
\* canonical group key of the filtered rows, in ascending order of the key,
\* and the COUNT(*) cell of each output row is the number of filtered rows
\* with that key.
C2_GroupedCounts ==
    (IsGroupedCount /\ ReturnedAfterFilter) =>
        /\ result.kind = "table"
        /\ result.rec.rows = Cardinality(GroupKeySet)
        /\ \A i \in 1..2 : IsCountStar(q.Projections[i]) =>
              /\ Len(result.rec.cols[i].cells) = Cardinality(GroupKeySet)
              /\ \A g \in 1..Cardinality(GroupKeySet) :
                    result.rec.cols[i].cells[g] =
                       Fin(Cardinality({r \in Range(passIndices) : KeyOf(r) = AscendingKeys[g]}), 1)

SupportedNames == {FnCount, FnSum, FnAvg, FnMax, FnMin}

IsSupportedCall(expr) ==
    /\ expr.node = "FuncCall"
    /\ ToUpper(expr.Name) \in SupportedNames
    /\ Len(expr.Args) = 1
    /\ expr.Args[1].node # "FuncCall"

EveryProjection(P(_)) == \A i \in DOMAIN q.Projections : P(q.Projections[i])

IsRowExpr(expr) == expr.node \in {"ColumnRef", "Literal", "BinaryExpr"}
IsColumnOrCall(expr) == expr.node = "ColumnRef" \/ IsSupportedCall(expr)

\* the supported query shapes: plain projection, all-aggregate, GROUP BY;
\* columns exist and aggregate calls are well formed
SupportedShape ==
    /\ variant = "agg"
    /\ AllRefsExist(q.Projections, table) /\ AllRefsExist(q.GroupBy, table)
    /\ q.Where.node # "nil" => RefsExist(q.Where, table)
    /\ \/ q.GroupBy = <<>> /\ EveryProjection(IsRowExpr)
       \/ EveryProjection(IsSupportedCall)
       \/ q.GroupBy # <<>> /\ EveryProjection(IsColumnOrCall)

\* a table of the same columns on which a row survives the query without WHERE
ReferenceTable == MakeTable(<< <<Str(<<"B">>), Fin(2, 1)>> >>)

\* the schema the query produces when rows survive
SchemaWithRows == ExecuteQuery(variant, [q EXCEPT !.Where = NilExpr], ReferenceTable).rec.schema

\* C3: whenever zero rows survive filtering, ExecuteQuery returns no error for
\* every supported query shape, and the returned table has zero rows and the
\* schema the same query produces when rows survive.
C3_ZeroRowsSameSchema ==
    (SupportedShape /\ ReturnedAfterFilter /\ passIndices = <<>>) =>
        /\ result.kind = "table"
        /\ result.rec.rows = 0
        /\ result.rec.schema = SchemaWithRows

\* C4: a query with an empty GROUP BY whose projections hold at least one
\* FuncCall and at least one other expression always ends in an error.
C4_MixedRejected ==
    ( /\ variant = "agg"
      /\ epc = "done"
      /\ q.GroupBy = <<>>
      /\ \E i \in DOMAIN q.Projections : q.Projections[i].node = "FuncCall"
      /\ \E i \in DOMAIN q.Projections : q.Projections[i].node # "FuncCall" )
    => result.kind = "error"

\* C5: if WHERE evaluates to a value that is not a boolean on some row,
\* ExecuteQuery returns an error and no table, in each of its versions.
C5_NonBooleanWhereFails ==
    ( /\ epc = "done"
      /\ q.Where.node # "nil"
      /\ \E r \in Rows(table) : WhereAt(r).err = "" /\ WhereAt(r).val.t # "bool" )
    => result.kind = "error"

\* the rows on which WHERE is true, ascending
RECURSIVE AscendingSeq(_)
AscendingSeq(S) ==
    IF S = {} THEN <<>>
    ELSE LET m == CHOOSE x \in S : \A y \in S : x <= y IN <<m>> \o AscendingSeq(S \ {m})

EveryProjectionIsFuncCall ==
    /\ variant = "agg"
    /\ q.Projections # <<>>
    /\ \A i \in DOMAIN q.Projections : q.Projections[i].node = "FuncCall"

OneRowOfAggregates ==
    /\ result.kind = "table"
    /\ result.rec.rows = 1
    /\ Len(result.rec.cols) = Len(q.Projections)
    /\ Len(result.rec.schema) = Len(q.Projections)
    /\ \A i \in DOMAIN q.Projections :
          LET a == evalAggregateFunction(q.Projections[i], table,
                                         AscendingSeq(TrueRows(table.rows)))
          IN a.err = "" /\ result.rec.cols[i].cells = <<a.val>>

\* C10 as stated: when every projection is a FuncCall, ExecuteQuery returns a
\* table of one row and one column per projection, each aggregate computed
\* over the whole filtered row set, with or without GROUP BY, with or without
\* surviving rows.
C10_AllAggregateOneRow ==
    (EveryProjectionIsFuncCall /\ epc = "done") => OneRowOfAggregates

\* C10 amended: when every projection is a FuncCall, ExecuteQuery returns
\* either an error (from WHERE or from an aggregate: unsupported name, wrong
\* number of arguments, an argument that fails to evaluate) or a table of one
\* row and one column per projection, each aggregate computed over the whole
\* filtered row set, with or without GROUP BY, with or without surviving
\* rows; it returns that table whenever WHERE is absent or boolean and every
\* aggregate evaluates on the filtered rows.
C10_AllAggregateOneRowOrError ==
    (EveryProjectionIsFuncCall /\ epc = "done") =>
        /\ result.kind = "error" \/ OneRowOfAggregates
        /\ ( /\ WhereIsBoolean
             /\ \A i \in DOMAIN q.Projections :
                   evalAggregateFunction(q.Projections[i], table,
                                         AscendingSeq(TrueRows(table.rows))).err = "" )
           => OneRowOfAggregates

C10_Witness ==
    /\ EveryProjectionIsFuncCall
    /\ epc = "done"
    /\ q.GroupBy = <<ColR>>
    /\ q.Where.node = "nil"
    /\ table.rows = 3
    /\ Cardinality(GroupKeySet) = 3
    /\ result.kind = "table"
    /\ result.rec.rows = 1
    /\ result.rec.cols[1].cells = <<Fin(3, 1)>>

(***************************************************************************)
(* COUNT.                                                                  *)
(***************************************************************************)
\* arguments of COUNT that evaluate on every row: a column with nulls of each
\* type, an arithmetic expression (never null), a literal
CountArgs == { ColV, ColR, BinaryExpr(ColV, OpPlus, Lit(<<"1">>)), Lit(<<"5">>) }

\* the rows of S on which expr is not null
NonNullRows(expr, S) ==
    {r \in S : evaluateExpression("agg", expr, table, r).val.t # "nil"}

CountOf(arg, S) == evalAggregateFunction(FuncCall(FnCount, <<arg>>), table, AscendingSeq(S))

\* star = COUNT(*) and c = COUNT(expr) over the row set S, nonNull being the
\* rows of S on which expr is not null
CountsAgree(star, c, nonNull, S) ==
    /\ star = Val(Fin(Cardinality(S), 1))
    /\ c = Val(Fin(Cardinality(nonNull), 1))
    /\ ~FLt(star.val, c.val)
    /\ FEq(c.val, star.val) <=> nonNull = S

\* C11: on every table and for every set of its rows, COUNT(*) is the number
\* of rows of the set whatever the cells hold, COUNT(expr) is the number of
\* rows of the set on which expr is not null, so COUNT(expr) <= COUNT(*) with
\* equality exactly when expr is not null on any row of the set; and the
\* COUNT cells of the table returned by an all-aggregate query are these
\* numbers for the filtered rows.  (The row sets of a table are enumerated
\* once per table, in the runs of SELECT COUNT(*) without WHERE.)
C11_CountStarAndCountExpr ==
    /\ (variant = "agg" /\ epc = "done" /\ q = Query(<<CountStar>>, NilExpr, <<>>)) =>
          \A S \in SUBSET Rows(table) : \A e \in CountArgs :
              CountsAgree(CountOf(StarExpr, S), CountOf(e, S), NonNullRows(e, S), S)
    /\ (variant = "agg" /\ epc = "done" /\ allAgg(q) /\ result.kind = "table") =>
          \A i \in DOMAIN q.Projections :
             ( /\ ToUpper(q.Projections[i].Name) = FnCount
               /\ Len(q.Projections[i].Args) = 1
               /\ q.Projections[i].Args[1] \in CountArgs \cup {StarExpr} )
             => result.rec.cols[i].cells =
                   << Fin(Cardinality(
                         IF q.Projections[i].Args[1] = StarExpr
                         THEN Range(passIndices)
                         ELSE NonNullRows(q.Projections[i].Args[1], Range(passIndices))), 1) >>

\* count(v) over three filtered rows of which one holds a null v: 2
C11_Witness ==
    /\ variant = "agg"
    /\ epc = "done"
    /\ q.Projections[1] = FuncCall(<<"c","o","u","n","t">>, <<ColV>>)
    /\ Len(passIndices) = 3
    /\ Cardinality(NonNullRows(ColV, Range(passIndices))) = 2
    /\ result.kind = "table"
    /\ result.rec.cols[1].cells = <<Fin(2, 1)>>

(***************************************************************************)
(* Arity of the aggregates.                                                *)
(***************************************************************************)
\* C12: an all-aggregate query whose first projection is COUNT, SUM, AVG,
\* MAX or MIN with a number of arguments other than one fails with the arity
\* error, which is not the error an unrecognized function name gets.
C12_ArityErrorDistinct ==
    ( /\ variant = "agg" /\ epc = "done" /\ row = table.rows /\ allAgg(q)
      /\ ToUpper(q.Projections[1].Name) \in SupportedNames
      /\ Len(q.Projections[1].Args) # 1 )
    => /\ result = RError("expects one argument")
       /\ evalAggregateFunction(FuncCall(<<"F","O","O">>, <<ColV>>), table, passIndices).err
             # result.err

(***************************************************************************)
(* Round trip through Query.String.                                        *)
(***************************************************************************)
\* C13: when Parse returned a Query with a binary WHERE expression, parsing
\* the text Query.String() renders for it succeeds and returns a Query equal
\* to the first one.
C13_RoundTrip ==
    (src.kind = "rendered" /\ rendered.Where.node = "BinaryExpr" /\ ParseEnded) =>
        /\ ppc = "done"
        /\ ParsedQuery = rendered

(***************************************************************************)
(* Row alignment of the regular projection.                                *)
(***************************************************************************)
\* the cell a projection holds for input row r: the column's cell for a
\* ColumnRef, the float of the expression's value otherwise
ProjectedCell(expr, r) ==
    IF expr.node = "ColumnRef"
    THEN table.cols[findColumnIndex(table, expr.Name) + 1].cells[r + 1]
    ELSE IF evaluateExpression(variant, expr, table, r).val.t = "nil" THEN Nil
    ELSE toFloat(evaluateExpression(variant, expr, table, r).val)

\* C14: in a query without aggregates and without GROUP BY the output table
\* has one row per surviving input row, and in output row k every projected
\* column holds the cell or the expression value of the k-th surviving row.
C14_RowsAligned ==
    ( /\ epc = "done" /\ result.kind = "table"
      /\ q.GroupBy = <<>>
      /\ EveryProjection(IsRowExpr) )
    => /\ result.rec.rows = Len(passIndices)
       /\ \A i \in DOMAIN q.Projections : \A k \in DOMAIN passIndices :
             result.rec.cols[i].cells[k] = ProjectedCell(q.Projections[i], passIndices[k])

(***************************************************************************)
(* Representative row of a group.                                          *)
(***************************************************************************)
\* the lowest filtered row whose key is the g-th key in ascending order
FirstRowOfGroup(g) ==
    CHOOSE r \in Range(passIndices) :
        /\ KeyOf(r) = AscendingKeys[g]
        /\ \A r2 \in Range(passIndices) : KeyOf(r2) = AscendingKeys[g] => r <= r2

\* C15: in the table a GROUP BY query returns, each ColumnRef projection of
\* an output row holds the cell of that column at the first filtered row of
\* the group, with the same value and the same nullness.
C15_FirstRowOfGroup ==
    ( /\ variant = "agg" /\ epc = "done" /\ result.kind = "table"
      /\ Len(q.GroupBy) > 0 /\ ~allAgg(q) )
    => \A i \in DOMAIN q.Projections : q.Projections[i].node = "ColumnRef" =>
          \A g \in 1..Cardinality(GroupKeySet) :
             result.rec.cols[i].cells[g]
                = table.cols[findColumnIndex(table, q.Projections[i].Name) + 1]
                       .cells[FirstRowOfGroup(g) + 1]

(***************************************************************************)
(* Panics of GROUP BY queries.                                             *)
(***************************************************************************)
\* C16: ExecuteQuery on a GROUP BY query returns a table or an error, whatever
\* the table holds and whatever rows survive filtering; it never panics.
C16_GroupByNeverPanics ==
    (variant = "agg" /\ epc = "done" /\ Len(q.GroupBy) > 0) =>
        result.kind \in {"table", "error"}

(***************************************************************************)
(* Errors of operands inside a BinaryExpr.                                 *)
(***************************************************************************)
BinaryOps == {OpPlus, OpMinus, OpTimes, OpDiv, OpGt, OpLt, OpEq, OpAnd, OpOr}

\* operands whose evaluation fails: a missing column, a FuncCall
FailingOperands == {ColMissing, CountStar}

WhereMissing == BinaryExpr(ColMissing, OpGt, Lit(<<"5">>))

\* expr evaluates on row r without error, to what the operator gives for the
\* values left and right
EvaluatesTo(expr, r, left, right) ==
    /\ evaluateExpression(variant, expr, table, r).err = ""
    /\ evaluateExpression(variant, expr, table, r) = ApplyOp(expr.Op, left, right)

\* C17: a BinaryExpr with one of the operators + - * / > < = AND OR evaluates
\* without error, on every row of every table, even when an operand fails
\* (missing column, FuncCall): the operand counts as null; so a query with
\* WHERE m > 5 on a missing column m runs its filter on every row (m > 5 is
\* false, null counting as 0) and returns no column-not-found error, whereas
\* m as a bare projection makes the query fail with that error.  (The rows of
\* a table are enumerated once per table and version of the engine, in the
\* runs of SELECT m WHERE m > 5.)
C17_OperandErrorsAbsorbed ==
    /\ (epc = "done" /\ q = Query(<<ColMissing>>, WhereMissing, <<>>)) =>
          /\ \A r \in Rows(table) : \A op \in BinaryOps : \A bad \in FailingOperands :
                /\ evaluateExpression(variant, bad, table, r).err # ""
                /\ EvaluatesTo(BinaryExpr(bad, op, ColV), r, Nil,
                               evaluateExpression(variant, ColV, table, r).val)
                /\ EvaluatesTo(BinaryExpr(ColR, op, bad), r,
                               evaluateExpression(variant, ColR, table, r).val, Nil)
                /\ EvaluatesTo(BinaryExpr(bad, op, bad), r, Nil, Nil)
          /\ result = RError("column not found")
    /\ (epc = "done" /\ q.Where = WhereMissing) =>
          /\ row = table.rows
          /\ passIndices = <<>>
          /\ (q.GroupBy = <<>> /\ AllRefsExist(q.Projections, table)) =>
                result.kind # "panic" /\ result.err # "column not found"

C17_Witness ==
    /\ variant = "agg"
    /\ epc = "done"
    /\ q.Where = WhereMissing
    /\ q.Projections = <<ColR>>
    /\ table.rows = 3
    /\ result.kind = "table"
    /\ result.rec.rows = 0

(***************************************************************************)
(* Operator chains in parseExpression.                                     *)
(***************************************************************************)
\* the precedence table: higher binds tighter
Precedence(op) ==
    IF op \in {<<"*">>, <<"/">>} THEN 3
    ELSE IF op \in {<<"+">>, <<"-">>, <<">">>, <<"<">>, <<"=">>} THEN 2
    ELSE IF op = KwAnd THEN 1
    ELSE 0

\* the tree precedence climbing builds for a op1 b op2 c: the second operator
\* takes b only when it binds tighter than the first, else the chain groups
\* to the left
ChainTree(w) ==
    IF Precedence(w[4]) > Precedence(w[2])
    THEN BinaryExpr(OperandExpr(w[1]), w[2],
                    BinaryExpr(OperandExpr(w[3]), w[4], OperandExpr(w[5])))
    ELSE BinaryExpr(BinaryExpr(OperandExpr(w[1]), w[2], OperandExpr(w[3])), w[4],
                    OperandExpr(w[5]))

\* C18: whenever Parse returns a Query for a WHERE clause a op1 b op2 c, its
\* Where is the tree of precedence climbing (* / above + - and comparisons,
\* above AND, above OR; equal precedence groups to the left), holding both
\* operators and all three operands: the chain is never cut to a op1 b.
C18_PrecedenceClimbing ==
    (src.kind = "chain" /\ ppc = "done") => where = ChainTree(src.where)

====
